---- MODULE Spec2Model ----
(***************************************************************************)
(* Ranked-choice decision engine of packvote/backend:                      *)
(*   - instant_runoff_voting (app/services/voting.py), stepped one loop    *)
(*     iteration at a time under SpecTally;                                *)
(*   - the voting lifecycle of one trip (VotingService and the request     *)
(*     handlers of app/api/votes.py, trips.py, recommendations.py) under   *)
(*     Spec.                                                               *)
(* Candidate / recommendation ids and user ids are positive integers       *)
(* (the code uses UUID strings, which are totally ordered as well).        *)
(***************************************************************************)
EXTENDS Integers, Sequences, FiniteSets, TLC

\* ---------------------------------------------------------------- bounds
\* the longest ballot list handed to the tally
MaxBallots == 3
\* the longest vote_data list of one cast_votes request
MaxVoteItems == 2

\* Python's None; every id is >= 1.
None == 0

\* the candidate ids the tally's inputs are drawn from
CandidateIds == {1, 2, 3}
\* the users, the trip's creator (trip.created_by) and its recommendations
Users == {1, 2}
Owner == 1
RecIds == {1, 2}
\* the recommendations with ai_generated = True (the others were added by hand)
AiRecIds == {2}

\* ------------------------------------------------------------ generalities
Range(s) == {s[i] : i \in DOMAIN s}

\* sequences over S without repetition, of every length
DistinctSeqs(S) ==
    UNION {{s \in [1..n -> S] : \A i, j \in 1..n : s[i] = s[j] => i = j} :
           n \in 0..Cardinality(S)}

\* the orders in which a set may be iterated
IterationOrders(S) == {s \in DistinctSeqs(S) : Range(s) = S}

\* a set iterated in the order `order`
InOrder(order, S) == SelectSeq(order, LAMBDA c : c \in S)

RECURSIVE SumOver(_, _)
SumOver(f, S) ==
    IF S = {} THEN 0
    ELSE LET c == CHOOSE x \in S : TRUE IN f[c] + SumOver(f, S \ {c})

\* sum(vote_counts.values())
SumValues(f) == SumOver(f, DOMAIN f)

Last(s) == s[Len(s)]

\* ------------------------------------------------- instant_runoff_voting
\* The tally's local state as a record:
\*   active_candidates, rounds, round_num, winner, pc
\* pc: "start" (before line 52), "loop" (at the while test, line 61),
\*     "final" (after the loop, line 118), "done" (returned).

\* lines 68-72: the highest-ranked active candidate of one ballot
FirstActive(ranking, active) ==
    LET hits == SelectSeq(ranking, LAMBDA c : c \in active)
    IN IF hits = <<>> THEN None ELSE Head(hits)

\* a count of first preferences only: a ballot whose first id is not active
\* is not transferred
CountVotes_FirstChoiceOnly(active, blts) ==
    [c \in active |->
        Cardinality({i \in DOMAIN blts : blts[i] # <<>> /\ Head(blts[i]) = c})]

\* the inner loop without its break: a ballot counts for every active
\* candidate it ranks
CountVotes_NoBreak(active, blts) ==
    [c \in active |-> Cardinality({i \in DOMAIN blts : c \in Range(blts[i])})]

\* lines 63-72: the counts of one round
CountVotes(active, blts) ==
    [c \in active |->
        Cardinality({i \in DOMAIN blts : FirstActive(blts[i], active) = c})]

\* the majority test with its comparison turned round
MajorityCandidates_Reversed(order, vote_counts) ==
    SelectSeq(InOrder(order, DOMAIN vote_counts),
              LAMBDA c : 2 * vote_counts[c] < SumValues(vote_counts))

\* lines 78-79: the candidates holding a strict majority, in iteration order
MajorityCandidates(order, vote_counts) ==
    SelectSeq(InOrder(order, DOMAIN vote_counts),
              LAMBDA c : 2 * vote_counts[c] > SumValues(vote_counts))

\* line 92
MinVotes(vote_counts) ==
    CHOOSE m \in Range(vote_counts) : \A c \in DOMAIN vote_counts : m <= vote_counts[c]

\* lines 93-96: vote_counts.items() follows the set's iteration order
CandidatesToEliminate(order, vote_counts) ==
    SelectSeq(InOrder(order, DOMAIN vote_counts),
              LAMBDA c : vote_counts[c] = MinVotes(vote_counts))

\* line 99: candidates_to_eliminate[0]
EliminatedCandidate(order, vote_counts) ==
    Head(CandidatesToEliminate(order, vote_counts))

ElectionRound(n, vc, elim, win, total, act) ==
    [round_number |-> n, vote_counts |-> vc, eliminated_candidate |-> elim,
     winner |-> win, total_votes |-> total, active_candidates |-> act]

\* lines 55-59
TallySetup(cands) ==
    [active_candidates |-> cands, rounds |-> <<>>, round_num |-> 1,
     winner |-> None, pc |-> "loop"]

\* the guard without its test of the ballots
IsDegenerate_CandidatesOnly(cands, blts) == cands = {}

\* line 52: not candidates or not ballots
IsDegenerate(cands, blts) == cands = {} \/ blts = <<>>

\* line 53
TallyDegenerate ==
    [active_candidates |-> {}, rounds |-> <<>>, round_num |-> 1,
     winner |-> None, pc |-> "done"]

HasMajority(order, blts, t) ==
    MajorityCandidates(order, CountVotes(t.active_candidates, blts)) # <<>>

\* lines 78-89: a round that finds a majority winner and returns
MajorityStep(order, blts, t) ==
    LET vc  == CountVotes(t.active_candidates, blts)
        win == Head(MajorityCandidates(order, vc))
    IN [t EXCEPT !.winner = win,
                 !.rounds = Append(@, ElectionRound(t.round_num, vc, None, win,
                                SumValues(vc), InOrder(order, t.active_candidates))),
                 !.pc = "done"]

\* an elimination round that eliminates nobody and records nothing
EliminationStep_Stalls(cands, order, blts, t) == t

\* an elimination round that forgets active_candidates.remove
EliminationStep_KeepActive(cands, order, blts, t) ==
    LET vc   == CountVotes(t.active_candidates, blts)
        elim == EliminatedCandidate(order, vc)
    IN [t EXCEPT !.rounds = Append(@, ElectionRound(t.round_num, vc, elim, None,
                                SumValues(vc), InOrder(order, t.active_candidates))),
                 !.round_num = @ + 1,
                 !.pc = IF t.round_num + 1 > Cardinality(cands) THEN "final" ELSE "loop"]

\* lines 91-116: a round that eliminates one candidate
EliminationStep(cands, order, blts, t) ==
    LET vc   == CountVotes(t.active_candidates, blts)
        elim == EliminatedCandidate(order, vc)
        rest == t.active_candidates \ {elim}
    IN [t EXCEPT !.active_candidates = rest,
                 !.rounds = Append(@, ElectionRound(t.round_num, vc, elim, None,
                                SumValues(vc), Append(InOrder(order, rest), elim))),
                 !.round_num = @ + 1,
                 !.pc = IF t.round_num + 1 > Cardinality(cands) THEN "final" ELSE "loop"]

\* the end of the function without line 120: no winner is taken from the
\* remaining candidates
FinalStep_NoWinner(order, t) ==
    [t EXCEPT !.winner = None, !.pc = "done"]

\* lines 118-135: after the loop
FinalStep(order, t) ==
    LET act == InOrder(order, t.active_candidates)
        win == IF act # <<>> THEN Head(act) ELSE None
    IN [t EXCEPT !.winner = win,
                 !.rounds = IF t.rounds # <<>> /\ Last(t.rounds).winner = None
                            THEN Append(@, ElectionRound(t.round_num,
                                     Last(t.rounds).vote_counts, None, win,
                                     Last(t.rounds).total_votes, act))
                            ELSE @,
                 !.pc = "done"]

\* one step of the function body from the state t
TallyStep(cands, order, blts, t) ==
    IF t.pc = "start"
    THEN IF IsDegenerate(cands, blts) THEN TallyDegenerate ELSE TallySetup(cands)
    ELSE IF t.pc = "loop" /\ Cardinality(t.active_candidates) > 1
    THEN IF HasMajority(order, blts, t)
         THEN MajorityStep(order, blts, t)
         ELSE EliminationStep(cands, order, blts, t)
    ELSE FinalStep(order, t)

RECURSIVE RunTally(_, _, _, _)
RunTally(cands, order, blts, t) ==
    IF t.pc = "done" THEN t
    ELSE RunTally(cands, order, blts, TallyStep(cands, order, blts, t))

TallyStart ==
    [active_candidates |-> {}, rounds |-> <<>>, round_num |-> 1,
     winner |-> None, pc |-> "start"]

\* the (winner, rounds) returned for the candidates, the ballots and the
\* order in which the set of candidate ids happens to be iterated
instant_runoff_voting(cands, order, blts) ==
    LET t == RunTally(cands, order, blts, TallyStart)
    IN [winner |-> t.winner, rounds |-> t.rounds]

\* ------------------------------------------------------------ VotingService
\* The database of one trip as a record:
\*   votes            the rows of table votes, [user_id, recommendation_id, rank]
\*   participants     user -> vote_status of the participant row, "absent"
\*                    when the user has no participant row
\*   recommendations  the ids of the trip's recommendation rows
\*   trip_status, trip_destination   columns of the trip row

TripStatus == {"planning", "voting", "confirmed", "cancelled"}

\* Recommendation.destination_name of the recommendation with id r
DestinationName(r) == r + 10

VotesOf(votes, u) == {v \in votes : v.user_id = u}

\* lines 343-350: the rows one vote_data list inserts
NewVotes(u, vote_data) ==
    {[user_id |-> u, recommendation_id |-> vote_data[i].recommendation_id,
      rank |-> vote_data[i].rank] : i \in DOMAIN vote_data}

\* a votes table without its unique constraint
UniqueViolation_Never(vote_data) == FALSE

\* UniqueConstraint(trip_id, user_id, recommendation_id): the INSERTs of one
\* vote_data list collide when it names a recommendation twice
UniqueViolation(vote_data) ==
    \E i, j \in DOMAIN vote_data :
        i # j /\ vote_data[i].recommendation_id = vote_data[j].recommendation_id

\* validate_vote without its test of the recommendation ids
VotingService_validate_vote_AnyRecommendation(db, vote_data) ==
    /\ vote_data # <<>>
    /\ \A i \in DOMAIN vote_data : vote_data[i].rank >= 1
    /\ \A r \in 1..Len(vote_data) :
          Cardinality({i \in DOMAIN vote_data : vote_data[i].rank = r}) = 1

\* validate_vote
VotingService_validate_vote(db, vote_data) ==
    /\ vote_data # <<>>
    /\ \A i \in DOMAIN vote_data :
          /\ vote_data[i].recommendation_id \in db.recommendations
          /\ vote_data[i].rank >= 1
    \* sorted(ranks) == [1..n]
    /\ \A r \in 1..Len(vote_data) :
          Cardinality({i \in DOMAIN vote_data : vote_data[i].rank = r}) = 1

\* cast_vote that inserts without deleting the user's previous rows
VotingService_cast_vote_NoDelete(db, u, vote_data) ==
    IF ~VotingService_validate_vote(db, vote_data) \/ UniqueViolation(vote_data)
    THEN [ok |-> FALSE, db |-> db]
    ELSE [ok |-> TRUE,
          db |-> [db EXCEPT
                    !.votes = @ \cup NewVotes(u, vote_data),
                    !.participants[u] = IF @ # "absent" THEN "voted" ELSE @]]

\* cast_vote: [ok, db]; a failed validation or a failed commit leaves the
\* database as it was (rollback)
VotingService_cast_vote(db, u, vote_data) ==
    IF ~VotingService_validate_vote(db, vote_data) \/ UniqueViolation(vote_data)
    THEN [ok |-> FALSE, db |-> db]
    ELSE [ok |-> TRUE,
          db |-> [db EXCEPT
                    !.votes = (@ \ VotesOf(@, u)) \cup NewVotes(u, vote_data),
                    !.participants[u] = IF @ # "absent" THEN "voted" ELSE @]]

\* skip_vote that marks the participant without deleting the votes
VotingService_skip_vote_KeepVotes(db, u) ==
    IF db.participants[u] # "absent"
    THEN [ok |-> TRUE, db |-> [db EXCEPT !.participants[u] = "skipped"]]
    ELSE [ok |-> FALSE, db |-> db]

\* skip_vote that confirms the trip once every participant has acted
VotingService_skip_vote_AutoFinalize(db, u) ==
    IF db.participants[u] # "absent"
    THEN LET skipped == [db EXCEPT !.votes = @ \ VotesOf(@, u),
                                   !.participants[u] = "skipped"]
             all_done == \A w \in Users :
                             skipped.participants[w] \in {"absent", "voted", "skipped"}
         IN [ok |-> TRUE,
             db |-> [skipped EXCEPT !.trip_status =
                                        IF all_done THEN "confirmed" ELSE @]]
    ELSE [ok |-> FALSE, db |-> db]

\* skip_vote: without a participant row nothing is committed
VotingService_skip_vote(db, u) ==
    IF db.participants[u] # "absent"
    THEN [ok |-> TRUE,
          db |-> [db EXCEPT !.votes = @ \ VotesOf(@, u),
                            !.participants[u] = "skipped"]]
    ELSE [ok |-> FALSE, db |-> db]

\* check_voting_completion
VotingService_check_voting_completion(db) ==
    LET joined == {u \in Users : db.participants[u] # "absent"}
    IN IF joined = {} THEN FALSE
       ELSE \A u \in joined : db.participants[u] \in {"voted", "skipped"}

\* sorted(user_vote_list, key=rank) as the ranking of recommendation ids
RECURSIVE SortedByRank(_)
SortedByRank(rows) ==
    IF rows = {} THEN <<>>
    ELSE LET v == CHOOSE x \in rows : \A y \in rows : x.rank <= y.rank
         IN <<v.recommendation_id>> \o SortedByRank(rows \ {v})

\* _create_ballots: one ballot per user with rows; userOrder is the order in
\* which the unordered query returned the users' rows
VotingService_create_ballots(votes, userOrder) ==
    [i \in 1..Len(userOrder) |-> SortedByRank(VotesOf(votes, userOrder[i]))]

Voters(votes) == {v.user_id : v \in votes}

\* calculate_results: [winner, rounds]
VotingService_calculate_results(db, userOrder, order) ==
    IF db.votes = {} \/ db.recommendations = {}
    THEN [winner |-> None, rounds |-> <<>>]
    ELSE instant_runoff_voting(db.recommendations, order,
                               VotingService_create_ballots(db.votes, userOrder))

\* finalize_voting: the committed database and the results
VotingService_finalize_voting(db, userOrder, order) ==
    LET results == VotingService_calculate_results(db, userOrder, order)
    IN [results |-> results,
        db |-> [db EXCEPT !.trip_status = "confirmed",
                          !.trip_destination =
                              IF results.winner # None
                              THEN DestinationName(results.winner) ELSE @]]

\* reset_votes that leaves the trip's destination in place
VotingService_reset_votes_KeepDestination(db) ==
    [db EXCEPT !.votes = {},
               !.participants = [u \in Users |->
                                    IF @[u] # "absent" THEN "not_voted" ELSE @[u]],
               !.trip_status = "voting"]

\* reset_votes
VotingService_reset_votes(db) ==
    [db EXCEPT !.votes = {},
               !.participants = [u \in Users |->
                                    IF @[u] # "absent" THEN "not_voted" ELSE @[u]],
               !.trip_status = "voting",
               !.trip_destination = None]

\* AuthService.check_trip_access(user, trip, "member")
validate_access(db, u) == u = Owner \/ db.participants[u] # "absent"

\* handlers that never find the voting closed
VotingClosed_Never(db) == FALSE

\* the "voting is closed" test of cast_votes, skip_vote and withdraw_votes
VotingClosed(db) == db.trip_status = "confirmed"

\* what a request answered: the handler, the requesting user, the HTTP status,
\* the error detail and, for the handlers of app/api/votes.py, the number of
\* vote rows their DELETE statement removed and committed (deleted_count in
\* withdraw_votes)
Response(op, u, code, detail, deleted) ==
    [op |-> op, user |-> u, status_code |-> code, detail |-> detail,
     deleted_count |-> deleted]

\* --------------------------------------------------------------- variables
VARIABLES candidates, ballots, iterOrder, tally, db, response, inflight

tallyVars == <<candidates, ballots, iterOrder, tally>>
tripVars == <<db, response>>
vars == <<candidates, ballots, iterOrder, tally, db, response, inflight>>

\* a trip as create_trip leaves it, with its recommendations added
InitialDb ==
    [votes |-> {},
     participants |-> [u \in Users |-> IF u = Owner THEN "not_voted" ELSE "absent"],
     recommendations |-> RecIds,
     trip_status |-> "planning",
     trip_destination |-> None]

NoResponse == Response("none", None, 0, "", 0)


\* the ballots of test_voting.py, with A, B, C, D as 1, 2, 3, 4
TestInputs ==
    { [c |-> 1..3, b |-> << <<1,2,3>>, <<1,3,2>>, <<2,1,3>>, <<1,2,3>> >>],
      [c |-> 1..3, b |-> << <<1,2,3>>, <<2,1,3>>, <<2,3,1>>, <<3,1,2>> >>],
      [c |-> 1..3, b |-> << <<1,2,3>>, <<1,3,2>>, <<2,1,3>>, <<3,1,2>> >>],
      [c |-> 1..4, b |-> << <<1,2>>, <<1,3>>, <<2,1>>, <<3,2,1>> >>] }

Rankings == DistinctSeqs(CandidateIds)

BallotLists == UNION {[1..n -> Rankings] : n \in 0..MaxBallots}

TallyInit ==
    /\ \/ /\ candidates \in SUBSET CandidateIds
          /\ ballots \in BallotLists
       \/ \E i \in TestInputs : candidates = i.c /\ ballots = i.b
    /\ iterOrder \in IterationOrders(candidates)
    /\ tally = TallyStart
    /\ db = InitialDb
    /\ response = NoResponse
    /\ inflight = <<>>

ReturnDegenerate ==
    /\ tally.pc = "start"
    /\ IsDegenerate(candidates, ballots)
    /\ tally' = TallyDegenerate
    /\ UNCHANGED <<candidates, ballots, iterOrder, tripVars, inflight>>

Setup ==
    /\ tally.pc = "start"
    /\ ~IsDegenerate(candidates, ballots)
    /\ tally' = TallySetup(candidates)
    /\ UNCHANGED <<candidates, ballots, iterOrder, tripVars, inflight>>

MajorityRound ==
    /\ tally.pc = "loop"
    /\ Cardinality(tally.active_candidates) > 1
    /\ HasMajority(iterOrder, ballots, tally)
    /\ tally' = MajorityStep(iterOrder, ballots, tally)
    /\ UNCHANGED <<candidates, ballots, iterOrder, tripVars, inflight>>

EliminationRound ==
    /\ tally.pc = "loop"
    /\ Cardinality(tally.active_candidates) > 1
    /\ ~HasMajority(iterOrder, ballots, tally)
    /\ tally' = EliminationStep(candidates, iterOrder, ballots, tally)
    /\ UNCHANGED <<candidates, ballots, iterOrder, tripVars, inflight>>

FinishTally ==
    /\ \/ tally.pc = "loop" /\ Cardinality(tally.active_candidates) <= 1
       \/ tally.pc = "final"
    /\ tally' = FinalStep(iterOrder, tally)
    /\ UNCHANGED <<candidates, ballots, iterOrder, tripVars, inflight>>

TallyNext ==
    \/ ReturnDegenerate
    \/ Setup
    \/ MajorityRound
    \/ EliminationRound
    \/ FinishTally

SpecTally == TallyInit /\ [][TallyNext]_vars

\* a call of the function runs on: the interpreter takes the next step of
\* the body as long as there is one
SpecTallyFair == SpecTally /\ WF_vars(TallyNext)

\* ------------------------------------------------------- request handlers
\* the vote_data lists a cast_votes request may carry (BulkVoteCreate:
\* at least one item, every rank >= 1)
VoteItems == [recommendation_id : RecIds, rank : 1..MaxVoteItems]

VoteData == UNION {[1..n -> VoteItems] : n \in 1..MaxVoteItems}

Init ==
    /\ db = InitialDb
    /\ response = NoResponse
    /\ inflight = <<>>
    /\ candidates = {}
    /\ ballots = <<>>
    /\ iterOrder = <<>>
    /\ tally = TallyStart

\* POST /trips/{trip_id}/votes
cast_votes(u, vote_data) ==
    /\ IF ~validate_access(db, u)
       THEN /\ response' = Response("cast_votes", u, 403, "Access denied to this trip", 0)
            /\ db' = db
       ELSE IF VotingClosed(db)
       THEN /\ response' = Response("cast_votes", u, 400, "Voting is closed for this trip", 0)
            /\ db' = db
       ELSE LET r == VotingService_cast_vote(db, u, vote_data)
            IN /\ db' = r.db
               /\ response' = IF r.ok
                              THEN Response("cast_votes", u, 200, "",
                                            Cardinality(VotesOf(db.votes, u)))
                              ELSE Response("cast_votes", u, 400, "Failed to cast vote", 0)
    /\ UNCHANGED <<tallyVars, inflight>>

\* POST /trips/{trip_id}/votes/skip
skip_vote(u) ==
    /\ IF ~validate_access(db, u)
       THEN /\ response' = Response("skip_vote", u, 403, "Access denied to this trip", 0)
            /\ db' = db
       ELSE IF VotingClosed(db)
       THEN /\ response' = Response("skip_vote", u, 400, "Voting is closed for this trip", 0)
            /\ db' = db
       ELSE LET r == VotingService_skip_vote(db, u)
            IN /\ db' = r.db
               /\ response' = IF r.ok
                              THEN Response("skip_vote", u, 204, "",
                                            Cardinality(VotesOf(db.votes, u)))
                              ELSE Response("skip_vote", u, 400, "Failed to skip vote", 0)
    /\ UNCHANGED <<tallyVars, inflight>>

\* DELETE /trips/{trip_id}/votes
withdraw_votes(u) ==
    /\ IF ~validate_access(db, u)
       THEN /\ response' = Response("withdraw_votes", u, 403, "Access denied to this trip", 0)
            /\ db' = db
       ELSE IF VotingClosed(db)
       THEN /\ response' = Response("withdraw_votes", u, 400, "Voting is closed for this trip", 0)
            /\ db' = db
       ELSE /\ db' = [db EXCEPT !.votes = @ \ VotesOf(@, u),
                                !.participants[u] =
                                    IF @ # "absent" THEN "not_voted" ELSE @]
            /\ response' = Response("withdraw_votes", u, 204, "",
                                    Cardinality(VotesOf(db.votes, u)))
    /\ UNCHANGED <<tallyVars, inflight>>

\* POST /trips/{trip_id}/votes/reset
reset_votes(u) ==
    /\ IF u # Owner
       THEN /\ response' = Response("reset_votes", u, 403, "Only trip owner can reset votes", 0)
            /\ db' = db
       ELSE /\ db' = VotingService_reset_votes(db)
            /\ response' = Response("reset_votes", u, 204, "", Cardinality(db.votes))
    /\ UNCHANGED <<tallyVars, inflight>>

\* POST /trips/{trip_id}/votes/finalize.  The service call commits; the
\* handler then awaits the dict it returned, which raises TypeError, and the
\* generic except clause answers 500.
finalize_voting(u) ==
    /\ IF u # Owner
       THEN /\ response' = Response("finalize_voting", u, 403,
                                    "Only trip owner can finalize voting", 0)
            /\ db' = db
       ELSE IF ~VotingService_check_voting_completion(db)
       THEN /\ response' = Response("finalize_voting", u, 400,
                                    "Cannot finalize voting until all participants have voted or skipped", 0)
            /\ db' = db
       ELSE \E userOrder \in IterationOrders(Voters(db.votes)),
               order \in IterationOrders(db.recommendations) :
               /\ db' = VotingService_finalize_voting(db, userOrder, order).db
               /\ response' = Response("finalize_voting", u, 500,
                                       "Failed to finalize voting", 0)
    /\ UNCHANGED <<tallyVars, inflight>>

\* the bodies of PUT /trips/{trip_id} requests: the fields of TripUpdate the
\* request carries (exclude_unset); title stands for the fields that are
\* neither status nor destination
TripUpdates ==
    LET destinations == {DestinationName(r) : r \in RecIds} \cup {None}
    IN {[title |-> "t"]}
         \cup {[status |-> st] : st \in TripStatus}
         \cup {[destination |-> d] : d \in destinations}
         \cup {[status |-> st, destination |-> d] : st \in TripStatus, d \in destinations}

\* PUT /trips/{trip_id}: the owner sets the fields the request carries
update_trip(u, trip_update) ==
    /\ IF u # Owner
       THEN /\ response' = Response("update_trip", u, 403,
                                    "Only trip owners can update trip details", 0)
            /\ db' = db
       ELSE /\ db' = [db EXCEPT
                        !.trip_status =
                            IF "status" \in DOMAIN trip_update
                            THEN trip_update.status ELSE @,
                        !.trip_destination =
                            IF "destination" \in DOMAIN trip_update
                            THEN trip_update.destination ELSE @]
            /\ response' = Response("update_trip", u, 200, "", 0)
    /\ UNCHANGED <<tallyVars, inflight>>

\* DELETE /trips/{trip_id}/recommendations/{recommendation_id}: the votes of
\* the recommendation go with it (relationship cascade)
delete_recommendation(u, r) ==
    /\ IF u # Owner
       THEN /\ response' = Response("delete_recommendation", u, 403,
                                    "Only trip owners can delete recommendations", 0)
            /\ db' = db
       ELSE IF r \notin db.recommendations
       THEN /\ response' = Response("delete_recommendation", u, 404,
                                    "Recommendation not found", 0)
            /\ db' = db
       ELSE /\ db' = [db EXCEPT !.recommendations = @ \ {r},
                                !.votes = {v \in @ : v.recommendation_id # r}]
            /\ response' = Response("delete_recommendation", u, 204, "", 0)
    /\ UNCHANGED <<tallyVars, inflight>>

\* POST /trips/{trip_id}/recommendations/generate.  With clear_existing the
\* AI-generated recommendations and their votes are deleted and committed;
\* `created` are the recommendations AIService then stores (none when it
\* produced nothing); only when some were created is the voting reset.
generate_ai_recommendations(u, clear_existing, created) ==
    /\ IF u # Owner
       THEN /\ response' = Response("generate_ai_recommendations", u, 403,
                                    "Only trip owners can generate recommendations", 0)
            /\ db' = db
       ELSE LET cleared ==
                    IF clear_existing
                    THEN [db EXCEPT !.recommendations = @ \ AiRecIds,
                                    !.votes = {v \in @ : v.recommendation_id \notin AiRecIds}]
                    ELSE db
                fresh == created \ cleared.recommendations
            IN /\ db' = IF fresh = {}
                        THEN cleared
                        ELSE VotingService_reset_votes(
                                 [cleared EXCEPT !.recommendations = @ \cup fresh])
               /\ response' = Response("generate_ai_recommendations", u, 200, "", 0)
    /\ UNCHANGED <<tallyVars, inflight>>

\* POST /trips/join/{invite_code}
join_trip_by_code(u) ==
    /\ db' = [db EXCEPT !.participants[u] = IF @ = "absent" THEN "not_voted" ELSE @]
    /\ response' = Response("join_trip_by_code", u, 200, "", 0)
    /\ UNCHANGED <<tallyVars, inflight>>

\* DELETE /trips/{trip_id}/participants/{participant_id}: u removes the
\* participant row of user p, and p's votes
remove_participant(u, p) ==
    /\ IF db.participants[p] = "absent"
       THEN /\ response' = Response("remove_participant", u, 404, "Participant not found", 0)
            /\ db' = db
       ELSE IF ~(u = Owner \/ u = p)
       THEN /\ response' = Response("remove_participant", u, 403,
                                    "You can only remove yourself or participants from your own trips", 0)
            /\ db' = db
       ELSE /\ db' = [db EXCEPT !.participants[p] = "absent",
                                !.votes = @ \ VotesOf(@, p)]
            /\ response' = Response("remove_participant", u, 204, "", 0)
    /\ UNCHANGED <<tallyVars, inflight>>

Next ==
    \/ \E u \in Users, vote_data \in VoteData : cast_votes(u, vote_data)
    \/ \E u \in Users : skip_vote(u)
    \/ \E u \in Users : withdraw_votes(u)
    \/ \E u \in Users : reset_votes(u)
    \/ \E u \in Users : finalize_voting(u)
    \/ \E u \in Users, trip_update \in TripUpdates : update_trip(u, trip_update)
    \/ \E u \in Users, r \in RecIds : delete_recommendation(u, r)
    \/ \E u \in Users, clear_existing \in BOOLEAN, created \in SUBSET AiRecIds :
          generate_ai_recommendations(u, clear_existing, created)
    \/ \E u \in Users : join_trip_by_code(u)
    \/ \E u, p \in Users : remove_participant(u, p)

Spec == Init /\ [][Next]_vars

\* ---------------------------------------------------- concurrent requests
\* Two requests on one trip served at the same time, each on a database
\* session of its own.  No handler takes a lock; a request is the sequence
\* of its reads of committed data, its DELETE statement inside its open
\* transaction, and its commit.  The DELETE removes the rows that were
\* committed when the statement ran; rows another transaction commits
\* afterwards are not touched by it.  inflight[r] is request r:
\*   op, user, vote_data   the request
\*   pc                    "received", "checked", "deleted", "answered"
\*   to_delete             the rows its DELETE statement removed
\*   status_code           the answer, 0 until answered
Requests == {1, 2}

\* the vote_data lists cast_vote stores
ValidVoteData ==
    {vd \in VoteData :
        VotingService_validate_vote(InitialDb, vd) /\ ~UniqueViolation(vd)}

\* what a participant may have done in an open round
VoterStates ==
    {[vote_status |-> st, vote_data |-> <<>>] : st \in {"not_voted", "skipped"}}
        \cup {[vote_status |-> "voted", vote_data |-> vd] : vd \in ValidVoteData}

\* the trip in an open round ("voting") with every user joined
OpenDatabases ==
    {[votes |-> UNION {NewVotes(u, vs[u].vote_data) : u \in Users},
      participants |-> [u \in Users |-> vs[u].vote_status],
      recommendations |-> RecIds,
      trip_status |-> "voting",
      trip_destination |-> None] : vs \in [Users -> VoterStates]}

RequestInputs ==
    {[op |-> "cast_votes", user |-> u, vote_data |-> vd] :
        u \in Users, vd \in VoteData}
      \cup {[op |-> o, user |-> u, vote_data |-> <<>>] :
              o \in {"skip_vote", "withdraw_votes", "finalize_voting"}, u \in Users}

NewRequest(i) ==
    [op |-> i.op, user |-> i.user, vote_data |-> i.vote_data,
     pc |-> "received", to_delete |-> {}, status_code |-> 0]

ConcurrentInit ==
    /\ db \in OpenDatabases
    /\ inflight \in [Requests -> {NewRequest(i) : i \in RequestInputs}]
    /\ response = NoResponse
    /\ candidates = {}
    /\ ballots = <<>>
    /\ iterOrder = <<>>
    /\ tally = TallyStart

\* request r is answered with `code`
Answer(r, code, detail) ==
    /\ inflight' = [inflight EXCEPT ![r].pc = "answered", ![r].status_code = code]
    /\ response' = Response(inflight[r].op, inflight[r].user, code, detail, 0)

\* request r moves on to `pc`
Proceed(r, pc, rows) ==
    /\ inflight' = [inflight EXCEPT ![r].pc = pc, ![r].to_delete = rows]
    /\ response' = response

\* the access, owner, closed and completion tests a handler makes on the
\* committed data before it writes
RequestCheck(r) ==
    LET req == inflight[r]
    IN /\ req.pc = "received"
       /\ IF req.op = "finalize_voting"
          THEN IF req.user # Owner
               THEN Answer(r, 403, "Only trip owner can finalize voting")
               ELSE IF ~VotingService_check_voting_completion(db)
               THEN Answer(r, 400,
                      "Cannot finalize voting until all participants have voted or skipped")
               ELSE Proceed(r, "checked", {})
          ELSE IF ~validate_access(db, req.user)
               THEN Answer(r, 403, "Access denied to this trip")
               ELSE IF VotingClosed(db)
               THEN Answer(r, 400, "Voting is closed for this trip")
               ELSE Proceed(r, "checked", {})
       /\ UNCHANGED <<tallyVars, db>>

\* the DELETE of the user's vote rows in cast_vote (after validate_vote),
\* skip_vote and withdraw_votes; uncommitted
RequestDelete(r) ==
    LET req == inflight[r]
    IN /\ req.pc = "checked"
       /\ req.op \in {"cast_votes", "skip_vote", "withdraw_votes"}
       /\ IF req.op = "cast_votes" /\ ~VotingService_validate_vote(db, req.vote_data)
          THEN Answer(r, 400, "Failed to cast vote")
          ELSE Proceed(r, "deleted", VotesOf(db.votes, req.user))
       /\ UNCHANGED <<tallyVars, db>>

\* the INSERTs of a commit collide with a row that is still there
InsertCollides(kept, new, vote_data) ==
    \/ UniqueViolation(vote_data)
    \/ \E v \in kept, n \in new :
          v.user_id = n.user_id /\ v.recommendation_id = n.recommendation_id

\* the commit of request r: its deleted rows go, its new rows and its status
\* arrive; finalize_voting tallies the committed votes and commits the trip
RequestCommit(r) ==
    LET req  == inflight[r]
        u    == req.user
        kept == db.votes \ req.to_delete
        new  == NewVotes(u, req.vote_data)
    IN /\ UNCHANGED tallyVars
       /\ \/ /\ req.op = "cast_votes" /\ req.pc = "deleted"
             /\ IF InsertCollides(kept, new, req.vote_data)
                THEN db' = db /\ Answer(r, 400, "Failed to cast vote")
                ELSE /\ db' = [db EXCEPT
                                 !.votes = kept \cup new,
                                 !.participants[u] = IF @ # "absent" THEN "voted" ELSE @]
                     /\ Answer(r, 200, "")
          \/ /\ req.op = "skip_vote" /\ req.pc = "deleted"
             /\ IF db.participants[u] # "absent"
                THEN /\ db' = [db EXCEPT !.votes = kept,
                                         !.participants[u] = "skipped"]
                     /\ Answer(r, 204, "")
                ELSE db' = db /\ Answer(r, 400, "Failed to skip vote")
          \/ /\ req.op = "withdraw_votes" /\ req.pc = "deleted"
             /\ db' = [db EXCEPT !.votes = kept,
                                 !.participants[u] =
                                     IF @ # "absent" THEN "not_voted" ELSE @]
             /\ Answer(r, 204, "")
          \/ /\ req.op = "finalize_voting" /\ req.pc = "checked"
             /\ \E userOrder \in IterationOrders(Voters(db.votes)),
                   order \in IterationOrders(db.recommendations) :
                   db' = VotingService_finalize_voting(db, userOrder, order).db
             /\ Answer(r, 500, "Failed to finalize voting")

ConcurrentNext ==
    \E r \in Requests :
        \/ RequestCheck(r)
        \/ RequestDelete(r)
        \/ RequestCommit(r)

SpecConcurrent == ConcurrentInit /\ [][ConcurrentNext]_vars

\* ================================================================ claims
\* ------------------------------------------------ the tally (SpecTally)
Returned == tally.pc = "done"

SetMin(S) == CHOOSE m \in S : \A x \in S : m <= x

TiedLowest(vote_counts) ==
    {c \in DOMAIN vote_counts : vote_counts[c] = MinVotes(vote_counts)}

\* the ballots whose first preference is c
FirstPreferences(c) ==
    {i \in DOMAIN ballots : ballots[i] # <<>> /\ Head(ballots[i]) = c}

\* C1: determinism.  For fixed candidates and ballots the returned winner
\* and the (eliminated candidate, vote counts, winner) of every round are the
\* same under every order in which the set of active candidates may be
\* iterated.
C1_Determinism ==
    Returned =>
        \A o \in IterationOrders(candidates) :
            LET r == instant_runoff_voting(candidates, o, ballots)
            IN /\ r.winner = tally.winner
               /\ Len(r.rounds) = Len(tally.rounds)
               /\ \A i \in DOMAIN tally.rounds :
                     /\ r.rounds[i].eliminated_candidate
                            = tally.rounds[i].eliminated_candidate
                     /\ r.rounds[i].vote_counts = tally.rounds[i].vote_counts
                     /\ r.rounds[i].winner = tally.rounds[i].winner

\* C2: elimination tie-break.  Every round that eliminates a candidate
\* eliminates the lowest id among the candidates tied at the minimum count.
C2_LowestIdEliminated ==
    \A i \in DOMAIN tally.rounds :
        LET r == tally.rounds[i]
        IN r.eliminated_candidate # None =>
               r.eliminated_candidate = SetMin(TiedLowest(r.vote_counts))

\* C3: majority short-circuit.  With a non-empty candidate list (a single
\* candidate included) and a candidate that is the first preference of
\* strictly more than half of the ballots, the tally returns that candidate
\* with a trace of exactly one round, whose winner is that candidate.
C3_MajorityShortCircuit ==
    \A c \in candidates :
        Returned /\ 2 * Cardinality(FirstPreferences(c)) > Len(ballots) =>
            /\ tally.winner = c
            /\ Len(tally.rounds) = 1
            /\ tally.rounds[1].winner = c

\* C4: conservation.  In every round of the trace (elimination, majority and
\* terminal rounds) the vote counts sum to total_votes, and total_votes is at
\* most the number of ballots.
C4_Conservation ==
    \A i \in DOMAIN tally.rounds :
        /\ SumValues(tally.rounds[i].vote_counts) = tally.rounds[i].total_votes
        /\ tally.rounds[i].total_votes <= Len(ballots)

\* a returned tally with two eliminations and a terminal round, in which a
\* ballot ran out of active candidates
C4_Witness ==
    /\ Returned
    /\ Len(tally.rounds) >= 3
    /\ Last(tally.rounds).eliminated_candidate = None
    /\ \E i \in DOMAIN tally.rounds :
          0 < tally.rounds[i].total_votes /\ tally.rounds[i].total_votes < Len(ballots)

\* the ids eliminated so far
EliminatedIds(t) ==
    {t.rounds[i].eliminated_candidate : i \in DOMAIN t.rounds} \ {None}

\* entry j of the trace repeats the counts of entry j-1: the terminal entry
IsTerminalEntry(rs, j) == j > 1 /\ rs[j].vote_counts = rs[j - 1].vote_counts

C5_NeverReadmitted ==
    /\ EliminatedIds(tally) \cap tally.active_candidates = {}
    /\ tally.winner \notin EliminatedIds(tally)
    /\ \A i, j \in DOMAIN tally.rounds :
          i < j /\ tally.rounds[i].eliminated_candidate # None
                /\ ~IsTerminalEntry(tally.rounds, j) =>
              tally.rounds[i].eliminated_candidate \notin DOMAIN tally.rounds[j].vote_counts

C5_OneIdPerRound ==
    /\ tally.pc # "start" => tally'.active_candidates \subseteq tally.active_candidates
    /\ tally'.rounds # tally.rounds /\ Last(tally'.rounds).winner = None =>
           /\ Cardinality(tally'.active_candidates)
                  = Cardinality(tally.active_candidates) - 1
           /\ tally.active_candidates \ tally'.active_candidates
                  = {Last(tally'.rounds).eliminated_candidate}

\* C5: monotonic elimination.  Every round that declares no winner removes
\* exactly one id from the active set, the active set never grows, and an
\* eliminated id is never a key of a later round's recomputed counts nor the
\* returned winner.
C5_MonotonicElimination == []C5_NeverReadmitted /\ [][C5_OneIdPerRound]_vars

\* a returned tally that eliminated two candidates
C5_Witness ==
    Returned /\ Cardinality(EliminatedIds(tally)) >= 2 /\ tally.winner # None

\* C6: degenerate inputs.  With no candidates or no ballots the tally returns
\* winner None and an empty trace.
C6_DegenerateResult ==
    Returned /\ (candidates = {} \/ ballots = <<>>) =>
        tally.winner = None /\ tally.rounds = <<>>

\* returned for candidates without ballots
C6_Witness ==
    Returned /\ Cardinality(candidates) >= 2 /\ ballots = <<>> /\ tally.winner = None

\* ------------------------------------------- the voting lifecycle (Spec)
\* a voter: a user with a participant row of the trip
Rostered(d, u) == d.participants[u] # "absent"

\* the step is the answer `code` of handler `op`
Answered(op, code) == response'.op = op /\ response'.status_code = code

\* C7: last write wins.  When a voter who already has stored votes casts a
\* different ranking in an open round and the request succeeds, the voter's
\* stored votes are exactly the new ranking, the voter's status is "voted",
\* and the votes of every other user are as before.
C7_CastStep ==
    Answered("cast_votes", 200) =>
        LET u == response'.user
        IN \A vote_data \in VoteData :
              /\ cast_votes(u, vote_data)
              /\ Rostered(db, u)
              /\ VotesOf(db.votes, u) # {}
              /\ VotesOf(db.votes, u) # NewVotes(u, vote_data)
              => /\ VotesOf(db'.votes, u) = NewVotes(u, vote_data)
                 /\ db'.participants[u] = "voted"
                 /\ \A w \in Users \ {u} :
                       VotesOf(db'.votes, w) = VotesOf(db.votes, w)

C8_ClosedStep ==
    /\ db.trip_status = "confirmed"
    /\ response'.op \in {"cast_votes", "skip_vote", "withdraw_votes"}
    /\ response'.user = Owner \/ Rostered(db, response'.user)
    => /\ response'.status_code = 400
       /\ response'.detail = "Voting is closed for this trip"
       /\ db'.votes = db.votes
       /\ db'.participants = db.participants

C8_LifecycleGating == [][C8_ClosedStep]_vars

\* a withdraw request refused on a finalized trip that holds votes
C8_Witness ==
    /\ db.trip_status = "confirmed"
    /\ response.op = "withdraw_votes"
    /\ response.detail = "Voting is closed for this trip"
    /\ VotesOf(db.votes, response.user) # {}
    /\ db.participants[response.user] = "voted"

\* C9: finalize is rejected when already finalized.  A finalize request of
\* the owner that follows a committed finalize, with no request in between
\* and the trip "confirmed", is answered with a client error and leaves the
\* persisted winner as it was.
C9_FinalizeStep ==
    /\ response.op = "finalize_voting" /\ response.status_code = 500
    /\ db.trip_status = "confirmed"
    /\ response'.op = "finalize_voting" /\ response'.user = Owner
    => /\ response'.status_code = 400
       /\ db'.trip_destination = db.trip_destination

C9_FinalizeRejectedWhenFinalized == [][C9_FinalizeStep]_vars

\* C10: reset postcondition.  After a successful reset_votes, from any state
\* of the trip, there are no stored votes, every participant's vote status
\* is "not_voted", the trip's destination is cleared and its status is
\* "voting".
C10_ResetStep ==
    Answered("reset_votes", 204) =>
        /\ db'.votes = {}
        /\ \A w \in Users : Rostered(db, w) => db'.participants[w] = "not_voted"
        /\ \A w \in Users : Rostered(db', w) = Rostered(db, w)
        /\ db'.trip_destination = None
        /\ db'.trip_status = "voting"

C10_ResetPostcondition == [][C10_ResetStep]_vars

\* a reset that removed the votes of both users
C10_Witness ==
    /\ response.op = "reset_votes" /\ response.status_code = 204
    /\ response.deleted_count >= 2
    /\ Rostered(db, 1) /\ Rostered(db, 2)
    /\ db.trip_status = "voting"

\* C11: completion predicate.  check_voting_completion answers true exactly
\* when every user with a participant row has vote status "voted" or
\* "skipped"; with no participant row at all that is true.
C11_CompletionPredicate ==
    VotingService_check_voting_completion(db)
        <=> \A u \in Users :
                Rostered(db, u) => db.participants[u] \in {"voted", "skipped"}

\* the step is a successful submit or skip request
SubmitOrSkipStep ==
    \/ Answered("cast_votes", 200)
    \/ Answered("skip_vote", 204)

\* C12: completion never finalizes.  A successful submit or skip request
\* after which every participant has voted or skipped (the completion check
\* the handler then runs answers true) leaves the trip's status, its
\* destination and its recommendations as they were, and changes no vote and
\* no vote status of any user but the requesting one.
C12_CompletingStep ==
    SubmitOrSkipStep /\ VotingService_check_voting_completion(db') =>
        LET u == response'.user
        IN /\ db'.trip_status = db.trip_status
           /\ db'.trip_destination = db.trip_destination
           /\ db'.recommendations = db.recommendations
           /\ \A w \in Users \ {u} :
                 /\ VotesOf(db'.votes, w) = VotesOf(db.votes, w)
                 /\ db'.participants[w] = db.participants[w]

C13_FinalizeStep ==
    /\ response'.op = "finalize_voting" /\ response'.user = Owner
    /\ db.trip_status # "confirmed"
    /\ db.votes = {}
    /\ VotingService_check_voting_completion(db)
    => /\ response'.status_code = 200
       /\ db'.trip_status = "confirmed"
       /\ db'.trip_destination = None

C13_FinalizeWithZeroBallots == [][C13_FinalizeStep]_vars

\* C14: only finalize persists a winner.  In every reachable state the
\* trip's destination (the persisted winner) is present only if the trip's
\* status is "confirmed".
C14_WinnerOnlyWhenFinalized ==
    db.trip_destination # None => db.trip_status = "confirmed"

\* C15: status/ballot consistency.  In every reachable state a participant
\* with vote status "voted" has at least one stored vote row and a
\* participant with vote status "skipped" has none.
C15_StatusBallotConsistency ==
    \A u \in Users :
        /\ db.participants[u] = "voted" => VotesOf(db.votes, u) # {}
        /\ db.participants[u] = "skipped" => VotesOf(db.votes, u) = {}

\* the rankings the claim calls rejected: the empty one and those naming an
\* id that is not a recommendation of the trip
RejectedVoteData(d) ==
    {<<>>} \cup {vd \in VoteData :
                    \E i \in DOMAIN vd : vd[i].recommendation_id \notin d.recommendations}

\* cast_vote given a rejected ranking reports failure and hands back the
\* database it was given
C16_ServiceRejects ==
    \A u \in Users, vd \in RejectedVoteData(db) :
        LET r == VotingService_cast_vote(db, u, vd)
        IN ~r.ok /\ r.db = db

C16_RejectedStep ==
    response'.op = "cast_votes" =>
        LET u == response'.user
        IN \A vd \in RejectedVoteData(db) \ {<<>>} :
              cast_votes(u, vd) =>
                  /\ response'.status_code \in {400, 403}
                  /\ db' = db

\* C16: rejected submissions mutate nothing.  cast_vote given an empty
\* ranking, or a ranking naming an id that is not a recommendation of the
\* trip, reports failure, and the request leaves every vote row and every
\* vote status (the database as a whole) exactly as it was.
C16_RejectedMutateNothing == []C16_ServiceRejects /\ [][C16_RejectedStep]_vars

\* a submission was refused while recommendation 2 is gone, and the
\* requesting user's stored ballot and status "voted" are in place
C16_Witness ==
    /\ response.op = "cast_votes" /\ response.status_code = 400
    /\ response.detail = "Failed to cast vote"
    /\ db.recommendations = {1}
    /\ VotesOf(db.votes, response.user) # {}
    /\ db.participants[response.user] = "voted"

\* the rankings that name a recommendation of the trip more than once, with
\* ranks 1..n and every id known
DuplicateVoteData(d) ==
    {vd \in VoteData :
        /\ \A i \in DOMAIN vd : vd[i].recommendation_id \in d.recommendations
        /\ \A r \in 1..Len(vd) : Cardinality({i \in DOMAIN vd : vd[i].rank = r}) = 1
        /\ \E i, j \in DOMAIN vd :
              i # j /\ vd[i].recommendation_id = vd[j].recommendation_id}

\* cast_vote given such a ranking reports failure and hands back the
\* database it was given
C17_ServiceRejects ==
    \A u \in Users, vd \in DuplicateVoteData(db) :
        LET r == VotingService_cast_vote(db, u, vd)
        IN ~r.ok /\ r.db = db

C17_DuplicateStep ==
    response'.op = "cast_votes" =>
        LET u == response'.user
        IN \A vd \in DuplicateVoteData(db) :
              cast_votes(u, vd) =>
                  /\ response'.status_code \in {400, 403}
                  /\ db' = db
                  /\ \A v \in db'.votes : \A w \in db'.votes :
                        v.user_id = w.user_id
                            /\ v.recommendation_id = w.recommendation_id => v = w

\* C17: duplicate candidates are rejected.  A submission that names the same
\* recommendation more than once, with ranks 1..n, is refused with a client
\* error, none of its rows is stored, and the votes and the vote status of
\* the requesting user (the database as a whole) are as before.
C17_DuplicatesRejected == []C17_ServiceRejects /\ [][C17_DuplicateStep]_vars

\* a submission was refused while both recommendations exist, and the
\* requesting user's stored two-row ballot and status "voted" are in place
C17_Witness ==
    /\ response.op = "cast_votes" /\ response.status_code = 400
    /\ response.detail = "Failed to cast vote"
    /\ db.recommendations = RecIds
    /\ Cardinality(VotesOf(db.votes, response.user)) = 2
    /\ db.participants[response.user] = "voted"

\* ---------------------------------- concurrent requests (SpecConcurrent)
\* both requests are cast_votes of the same user and both were answered 200
BothCastSucceeded ==
    /\ \A r \in Requests :
          /\ inflight[r].op = "cast_votes"
          /\ inflight[r].pc = "answered"
          /\ inflight[r].status_code = 200
    /\ inflight[1].user = inflight[2].user

\* C18: no lost or merged updates.  When two concurrent cast_votes requests
\* of the same user have both succeeded, the user's stored votes are exactly
\* the rows of one of the two submitted rankings (not rows of both, and not
\* empty with status "voted").
C18_NoMergedBallot ==
    DOMAIN inflight = Requests /\ BothCastSucceeded =>
        LET u == inflight[1].user
        IN /\ \E r \in Requests :
                 VotesOf(db.votes, u) = NewVotes(u, inflight[r].vote_data)
           /\ db.participants[u] = "voted" => VotesOf(db.votes, u) # {}

\* C19: finalize excludes concurrent ballot mutation.  Once a finalize
\* request has committed (the trip is "confirmed"), no step of a concurrent
\* submit, skip or withdraw request changes a vote row or a vote status.
C19_FrozenStep ==
    db.trip_status = "confirmed" =>
        /\ db'.votes = db.votes
        /\ db'.participants = db.participants

C19_FinalizeExcludesMutation == [][C19_FrozenStep]_vars

\* ------------------------------------------------ the tally (SpecTally)
\* the ballots of test_instant_runoff, with A, B, C as 1, 2, 3
RunoffBallots == << <<1, 2, 3>>, <<2, 1, 3>>, <<2, 3, 1>>, <<3, 1, 2>> >>

\* C20: runoff scenario.  For the candidates {A, B, C} and the ballots
\* [A,B,C], [B,A,C], [B,C,A], [C,A,B] the returned tally eliminated C in
\* round 1, counted round 2 without C, has at least two rounds and names B
\* the winner, whatever the iteration order.
C20_RunoffScenario ==
    Returned /\ candidates = {1, 2, 3} /\ ballots = RunoffBallots =>
        /\ Len(tally.rounds) >= 2
        /\ tally.rounds[1].eliminated_candidate = 3
        /\ 3 \notin DOMAIN tally.rounds[2].vote_counts
        /\ tally.winner = 2

\* C21: a winner always exists.  For a non-empty candidate set and a
\* non-empty ballot list (ballots may rank some of the candidates only, and
\* counts may tie) the returned winner is not None and is one of the
\* candidates.
C21_WinnerExists ==
    Returned /\ candidates # {} /\ ballots # <<>> =>
        tally.winner # None /\ tally.winner \in candidates

\* a returned tally over three candidates whose first round was tied at the
\* minimum, with a ballot that ranks fewer candidates than there are
C21_Witness ==
    /\ Returned /\ tally.winner \in candidates
    /\ Cardinality(candidates) = 3
    /\ \E i \in DOMAIN ballots : Len(ballots[i]) < Cardinality(candidates)
    /\ tally.rounds # <<>>
    /\ Cardinality(TiedLowest(tally.rounds[1].vote_counts)) >= 2
    /\ tally.rounds[1].eliminated_candidate # None

\* C22: terminal trace.  Whenever the tally returns a winner (found by a
\* majority round or as the last active candidate, a single supplied
\* candidate included) the trace is non-empty and the winner field of its
\* last entry is the returned winner.
C22_TerminalTrace ==
    Returned /\ tally.winner # None =>
        /\ tally.rounds # <<>>
        /\ Last(tally.rounds).winner = tally.winner

\* ------------------------------------------- the voting lifecycle (Spec)
\* the users whose participant row has vote status "voted"
VotedUsers == {u \in Users : db.participants[u] = "voted"}

\* C23: tally input is restricted to voted voters.  In every reachable state
\* the ballots calculate_results builds are one non-empty ballot, in rank
\* order, for each user with vote status "voted" and none for any other
\* user (status "not_voted", "skipped", or no participant row).
C23_TallyInputIsVotedVoters ==
    \A userOrder \in IterationOrders(Voters(db.votes)) :
        LET blts == VotingService_create_ballots(db.votes, userOrder)
        IN /\ Range(userOrder) = VotedUsers
           /\ \A i \in DOMAIN blts :
                 blts[i] = SortedByRank(VotesOf(db.votes, userOrder[i]))

\* the round's lifecycle state: the handlers treat a trip as closed exactly
\* when its status is "confirmed"
LifecycleState(d) == IF d.trip_status = "confirmed" THEN "Finalized" ELSE "Open"

\* C24: lifecycle transitions.  The lifecycle state changes only from Open
\* to Finalized by a finalize request, or to Open by a reset of the votes;
\* and a finalize request on a Finalized trip is refused and changes
\* nothing.
C24_TransitionStep ==
    /\ LifecycleState(db') # LifecycleState(db) =>
          \/ /\ response'.op = "finalize_voting"
             /\ LifecycleState(db') = "Finalized"
          \/ /\ response'.op \in {"reset_votes", "generate_ai_recommendations"}
             /\ LifecycleState(db') = "Open"
    /\ response'.op = "finalize_voting" /\ LifecycleState(db) = "Finalized" =>
          /\ response'.status_code \in {400, 403}
          /\ db' = db

C24_LifecycleTransitions == [][C24_TransitionStep]_vars

\* C25: skip postcondition and frame.  After a successful skip request of a
\* participant on a trip that is not closed, that user has no stored vote
\* and vote status "skipped", and the votes and statuses of every other
\* user, the trip's status and its destination are as before; a skip
\* request that fails for want of a participant row removes no vote.
C25_SkipStep ==
    /\ Answered("skip_vote", 204) =>
          LET u == response'.user
          IN /\ Rostered(db, u) /\ ~VotingClosed(db)
             /\ VotesOf(db'.votes, u) = {}
             /\ db'.participants[u] = "skipped"
             /\ \A w \in Users \ {u} :
                   /\ VotesOf(db'.votes, w) = VotesOf(db.votes, w)
                   /\ db'.participants[w] = db.participants[w]
             /\ db'.trip_status = db.trip_status
             /\ db'.trip_destination = db.trip_destination
    /\ response'.op = "skip_vote" /\ response'.detail = "Failed to skip vote" =>
          /\ ~Rostered(db, response'.user)
          /\ db' = db

C25_SkipPostcondition == [][C25_SkipStep]_vars

\* user 2 skipped and lost a two-row ballot while user 1 holds a ballot
C25_Witness ==
    /\ response.op = "skip_vote" /\ response.status_code = 204
    /\ response.user = 2 /\ response.deleted_count = 2
    /\ VotesOf(db.votes, 2) = {}
    /\ db.participants[2] = "skipped"
    /\ VotesOf(db.votes, 1) # {}
    /\ db.participants[1] = "voted"

\* ------------------------------------------------ the tally (SpecTally)
\* the candidates still active when round i of the trace was counted
ActiveInRound(i) ==
    candidates \ {tally.rounds[j].eliminated_candidate : j \in 1..(i - 1)}

\* ballot b counts for c in a round with active set A: c is at some position
\* of b, is active, and no earlier position holds an active id
CountsFor(b, c, A) ==
    \E k \in DOMAIN b :
        b[k] = c /\ c \in A /\ \A j \in 1..(k - 1) : b[j] \notin A

\* C26: vote transfer.  In every counted round of the trace each ballot adds
\* one vote to the first id of its ranking that is still active and nothing
\* if none is; no ballot counts for two candidates, and only active
\* candidates (never an eliminated or unknown id) hold a count.
C26_VoteTransfer ==
    \A i \in DOMAIN tally.rounds :
        ~IsTerminalEntry(tally.rounds, i) =>
            LET vc == tally.rounds[i].vote_counts
                A  == ActiveInRound(i)
            IN /\ DOMAIN vc = A
               /\ \A c \in A :
                     vc[c] = Cardinality({n \in DOMAIN ballots : CountsFor(ballots[n], c, A)})
               /\ \A n \in DOMAIN ballots :
                     Cardinality({c \in A : CountsFor(ballots[n], c, A)}) <= 1
               /\ tally.rounds[i].total_votes
                     = Cardinality({n \in DOMAIN ballots :
                                       \E k \in DOMAIN ballots[n] : ballots[n][k] \in A})

\* a trace with a second counted round in which a ballot whose first choice
\* was eliminated counts for its second choice, next to a ballot that still
\* counts for its first choice
C26_Witness ==
    /\ Returned /\ Len(tally.rounds) >= 2
    /\ ~IsTerminalEntry(tally.rounds, 2)
    /\ LET e == tally.rounds[1].eliminated_candidate
           A == ActiveInRound(2)
       IN /\ \E n \in DOMAIN ballots :
                /\ Len(ballots[n]) >= 2 /\ ballots[n][1] = e
                /\ CountsFor(ballots[n], ballots[n][2], A)
          /\ \E n \in DOMAIN ballots :
                ballots[n] # <<>> /\ CountsFor(ballots[n], ballots[n][1], A)

\* C27: bounded termination.  Every call of the tally returns, and at no
\* point has the trace more entries than there are candidates.
C27_BoundedTermination ==
    /\ <>Returned
    /\ [](Len(tally.rounds) <= Cardinality(candidates))

\* a returned tally over three candidates whose trace has three entries: two
\* eliminations and the terminal entry
C27_Witness ==
    /\ Returned
    /\ Cardinality(candidates) = 3
    /\ Len(tally.rounds) = 3
    /\ tally.rounds[1].eliminated_candidate # None
    /\ tally.rounds[2].eliminated_candidate # None
    /\ tally.round_num = 3

\* the ids that appear on at least one ballot
RankedIds == UNION {Range(ballots[n]) : n \in DOMAIN ballots}

\* C28: an unranked candidate never wins.  When at least one ballot ranks a
\* supplied candidate, the returned winner appears on at least one ballot,
\* whatever the iteration order (whichever tied candidate is eliminated).
C28_UnrankedNeverWins ==
    Returned /\ RankedIds \cap candidates # {} => tally.winner \in RankedIds

\* a returned tally over three candidates one of which no ballot ranks, with
\* no majority in round 1 and the last elimination decided between tied
\* candidates
C28_Witness ==
    /\ Returned
    /\ Cardinality(candidates) = 3
    /\ Cardinality(candidates \ RankedIds) = 1
    /\ Len(tally.rounds) = 3
    /\ tally.rounds[1].eliminated_candidate \notin RankedIds
    /\ Cardinality(TiedLowest(tally.rounds[2].vote_counts)) = 2
    /\ tally.winner \in RankedIds

\* a trace entry whose vote_counts are kept for exactly its active
\* candidates and whose winner or eliminated candidate is one of them
EntryConsistent(r) ==
    /\ DOMAIN r.vote_counts = Range(r.active_candidates)
    /\ r.winner # None => r.winner \in Range(r.active_candidates)
    /\ r.eliminated_candidate # None
          => r.eliminated_candidate \in Range(r.active_candidates)

\* C29: trace self-consistency.  In every entry of the returned trace, the
\* appended terminal entry included, the keys of vote_counts are the entry's
\* active_candidates and the entry's winner or eliminated candidate, when
\* set, is one of them.
C29_TraceSelfConsistent ==
    Returned => \A i \in DOMAIN tally.rounds : EntryConsistent(tally.rounds[i])

\* the same for the entries written inside the loop only (majority and
\* elimination entries)
C29_LoopEntriesConsistent ==
    \A i \in DOMAIN tally.rounds :
        /\ tally.rounds[i].round_number = i
        /\ \/ EntryConsistent(tally.rounds[i])
           \/ /\ i = Len(tally.rounds)
              /\ i > 1
              /\ tally.rounds[i - 1].eliminated_candidate # None
              /\ tally.rounds[i].eliminated_candidate = None
              /\ DOMAIN tally.rounds[i].vote_counts
                     = DOMAIN tally.rounds[i - 1].vote_counts
              /\ Len(tally.rounds[i].active_candidates) = 1

\* the owner's finalize request was answered with an error
FinalizeFailed(r) ==
    r.op = "finalize_voting" /\ r.user = Owner /\ r.status_code >= 400

C30_FailedFinalizeStep ==
    FinalizeFailed(response')
        => /\ db'.trip_status = db.trip_status
           /\ db'.trip_destination = db.trip_destination

\* C30: a failed finalize is side-effect free.  Whenever the owner's finalize
\* request ends by reporting an error (completion not reached, or an
\* exception after the service call), the trip's status and persisted winner
\* are the same as before the request.
C30_FailedFinalizeNoEffect == [][C30_FailedFinalizeStep]_vars

\* the same for the owner's finalize requests refused before the service
\* call (completion not reached)
C30_RefusedFinalizeStep ==
    FinalizeFailed(response') /\ response'.status_code = 400
        => /\ db' = db
           /\ ~VotingService_check_voting_completion(db)

C30_RefusedFinalizeNoEffect == [][C30_RefusedFinalizeStep]_vars

====
